---- MODULE Spec2Model ----
(***************************************************************************)
(* A model of lychee's checking engine: ClientBuilder::build, Client::check *)
(* and the probes behind it (check_website with its retry loop and backoff, *)
(* check_default, check_github, check_mail), together with the Status type  *)
(* and its classifier.                                                      *)
(*                                                                          *)
(* Strings are modelled as tuples of string tokens (concatenation is \o),   *)
(* Option<T> as a tuple of length 0 (None) or 1 (Some(x)).  Every .await of  *)
(* the code is a step of its own, so a probe, a sleep or an API call is     *)
(* "in flight" between two actions.                                         *)
(*                                                                          *)
(* Spec runs one check() call at a time on a built Client; SpecCancel adds  *)
(* the dropping of the call's future at an await; SpecTasks runs two calls  *)
(* concurrently on one Client; SpecLive is Spec with every step of a call   *)
(* eventually taken; SpecFn applies the pure functions (Status::new, build, *)
(* the filter, Display for Status, == and Hash of ErrorKind) to arguments   *)
(* drawn from bounded sets; SpecStats adds responses to a ResponseStats.    *)
(*                                                                          *)
(* The Status type is the one of src/types.rs.  Uri, Filter and the         *)
(* conversions of an ErrorKind into a Status follow their description, as   *)
(* their code is not among the sources.  The transport's own options        *)
(* (method, timeout, redirects, headers, TLS) and the quirks change which   *)
(* answer a probe gets, not what check() does with it: the answers are      *)
(* drawn from ExecuteOutcomes.                                              *)
(***************************************************************************)
EXTENDS Integers, Sequences, FiniteSets, TLC

VARIABLES
    builder,    \* the ClientBuilder: one Option per field
    client,     \* None before build(), Some(Client) after
    pc,         \* where the current check() call stands
    input,      \* the argument of the current check() call
    uri,        \* check(): the request's uri, Some(..) once coerced
    source,     \* check(): the request's source, Some(..) once coerced
    retries,    \* check_website(): let mut retries
    wait,       \* check_website(): let mut wait
    status,     \* check_website(): let mut status, Some(..) once probed
    ret,        \* what check() returned: Ok(Response) or Err(ErrorKind)
    trace,      \* what the call has done so far, in order
    answer,     \* the last Result an awaited call of check() gave, and which call
    call,       \* a function of the code applied on its own: its name and arguments
    result,     \* the value that function returned, Some(..) once applied
    tasks,      \* concurrent check() calls on one Client: the locals of each task
    stats,      \* a ResponseStats, Some(..) once made by ResponseStats::new
    added       \* the responses given to ResponseStats::add so far, in order

vars == <<builder, client, pc, input, uri, source, retries, wait, status, ret, trace,
          answer, call, result, tasks, stats, added>>

----------------------------------------------------------------------------
(* Bounds of the model *)

\* how many options a caller sets on the builder before build()
MaxOptions == 1
\* how many distinct files requests can come from
NumFiles == 1
\* how many filter options are set on a builder whose filter is looked at on its own
MaxFilterOptions == 2
\* how many tokens the message of an Error status has at most
MaxMsgLen == 3
\* how many responses are added to a ResponseStats
MaxAdded == 3

----------------------------------------------------------------------------
(* Option<T> *)

None == <<>>
Some(x) == <<x>>
IsSome(o) == o /= <<>>
Unwrap(o) == o[1]
\* Option<Option<T>>::flatten
Flatten(o) == IF o = <<>> THEN <<>> ELSE o[1]
\* Option<bool>::unwrap_or_default / unwrap_or(false)
UnwrapOrFalse(o) == IF o = <<>> THEN FALSE ELSE o[1]

----------------------------------------------------------------------------
(* Program constants *)

\* let mut retries: i64 = 3
RETRIES == 3
\* let mut wait: u64 = 1
WAIT == 1
\* wait *= 2
BACKOFF_FACTOR == 2
\* StatusCode::OK
HTTP_OK == 200

----------------------------------------------------------------------------
(* Status *)

\* pub enum Status { Ok(code), Error(String, Option<code>), Timeout(Option<code>),
\*                   Redirected(code), Excluded }
Ok(c) == [tag |-> "Ok", msg |-> <<>>, code |-> Some(c)]
Error(m, c) == [tag |-> "Error", msg |-> m, code |-> c]
Timeout(c) == [tag |-> "Timeout", msg |-> <<>>, code |-> c]
Redirected(c) == [tag |-> "Redirected", msg |-> <<>>, code |-> Some(c)]
Excluded == [tag |-> "Excluded", msg |-> <<>>, code |-> None]

\* http::StatusCode::is_success / is_redirection
code_is_success(c) == c >= 200 /\ c < 300
code_is_redirection(c) == c >= 300 /\ c < 400

\* the classifier as it would be if every code below 400 counted as a success
Status_new_below_400(statuscode, accepted) ==
    IF IsSome(accepted) /\ statuscode \in Unwrap(accepted)
    THEN Ok(statuscode)
    ELSE IF statuscode < 400
    THEN Ok(statuscode)
    ELSE Error(<<>>, Some(statuscode))

\* the classifier as it would be if the class of the code were looked at before
\* the accepted set
Status_new_class_first(statuscode, accepted) ==
    IF code_is_success(statuscode)
    THEN Ok(statuscode)
    ELSE IF code_is_redirection(statuscode)
    THEN Redirected(statuscode)
    ELSE IF IsSome(accepted) /\ statuscode \in Unwrap(accepted)
    THEN Ok(statuscode)
    ELSE Error(<<>>, Some(statuscode))

\* Status::new(statuscode, accepted)
Status_new(statuscode, accepted) ==
    IF IsSome(accepted) /\ statuscode \in Unwrap(accepted)
    THEN Ok(statuscode)
    ELSE IF code_is_success(statuscode)
    THEN Ok(statuscode)
    ELSE IF code_is_redirection(statuscode)
    THEN Redirected(statuscode)
    ELSE Error(<<>>, Some(statuscode))

\* Display of http::StatusCode: the number and its canonical reason
code_text(c) ==
    CASE c = 200 -> "200 OK"
      [] c = 301 -> "301 Moved Permanently"
      [] c = 404 -> "404 Not Found"
      [] OTHER -> "<unknown status code>"

\* impl Display for Status, which impl Serialize for Status collects
Display(st) ==
    CASE st.tag = "Ok" -> <<"OK (", code_text(Unwrap(st.code)), ")">>
      [] st.tag = "Redirected" -> <<"Redirect (", code_text(Unwrap(st.code)), ")">>
      [] st.tag = "Excluded" -> <<"Excluded">>
      [] st.tag = "Error" ->
           IF IsSome(st.code)
           THEN <<"Failed: ">> \o st.msg \o <<" (", code_text(Unwrap(st.code)), ")">>
           ELSE <<"Failed: ">> \o st.msg
      [] st.tag = "Timeout" ->
           IF IsSome(st.code)
           THEN <<"Timeout (", code_text(Unwrap(st.code)), ")">>
           ELSE <<"Timeout">>

\* Status::is_success / is_failure / is_excluded
is_success(st) == st.tag = "Ok"
is_failure(st) == st.tag = "Error"
status_is_excluded(st) == st.tag = "Excluded"

\* the conversion as it would be if a timeout were an error like any other
Status_from_reqwest_no_timeout(e) == Error(e.msg, e.status)

\* impl From<reqwest::Error> for Status; e = [is_timeout, status, msg]
Status_from_reqwest(e) ==
    IF e.is_timeout
    THEN Timeout(e.status)
    ELSE Error(e.msg, e.status)

\* ErrorKind values and their Display text
MissingGitHubToken == [kind |-> "MissingGitHubToken", text |-> <<"GitHub token not specified">>]
UnreachableEmailAddress(u) ==
    [kind |-> "UnreachableEmailAddress", text |-> <<"Unreachable mail address: ">> \o u.url]
HubcapsError(m) == [kind |-> "HubcapsError", text |-> m]
UrlParseError(s) == [kind |-> "UrlParseError", text |-> <<"Cannot parse ">> \o s]

\* impl From<ErrorKind> for Status: the error becomes the Error status's reason
Status_from_error(kind) == Error(kind.text, None)

----------------------------------------------------------------------------
(* Uri, Input, Request, Response *)

\* what Url::parse accepts as a scheme
Schemes == {"http", "https", "mailto", "tel"}
\* what parses as a mail address
MailAddresses == {"user@example.com"}

\* the raw strings callers pass to check()
RawStrings ==
    { <<"https", "github.com", "lycheeverse", "lychee">>,
      <<"http", "example.com">>,
      <<"http", "127.0.0.1">>,
      <<"http", "10.0.0.1">>,
      <<"http", "169.254.0.1">>,
      <<"mailto", "user@example.com">>,
      <<"user@example.com">>,
      <<"tel", "123">>,
      <<"not a uri">> }

\* Uri { url }
MkUri(s) == [url |-> s]

\* Uri::try_from(&str): a URL, else a mail address (normalised to mailto:), else an error
Uri_try_from(s) ==
    IF Len(s) = 1 /\ s[1] \in MailAddresses
    THEN Some(MkUri(<<"mailto">> \o s))
    ELSE IF Len(s) >= 2 /\ s[1] \in Schemes
    THEN Some(MkUri(s))
    ELSE None

\* Uri::scheme
scheme(u) == u.url[1]

\* Uri::extract_github: Some((owner, repo)) for https://github.com/<owner>/<repo>
extract_github(u) ==
    IF Len(u.url) = 4 /\ u.url[2] = "github.com"
    THEN Some(<<u.url[3], u.url[4]>>)
    ELSE None

\* Uri::host_ip, classified: the class of a literal-IP host
host_ip_class(u) ==
    IF scheme(u) = "mailto" THEN "none"
    ELSE IF u.url[2] = "127.0.0.1" THEN "loopback"
    ELSE IF u.url[2] = "10.0.0.1" THEN "private"
    ELSE IF u.url[2] = "169.254.0.1" THEN "link_local"
    ELSE "none"

\* enum Input
Input_String(s) == [kind |-> "String", str |-> s, n |-> 0]
Input_FsPath(n) == [kind |-> "FsPath", str |-> <<>>, n |-> n]
Input_Stdin == [kind |-> "Stdin", str |-> <<>>, n |-> 0]

Uris == { Unwrap(Uri_try_from(s)) : s \in { r \in RawStrings : IsSome(Uri_try_from(r)) } }
Sources == { Input_FsPath(n) : n \in 1..NumFiles } \cup { Input_Stdin }

\* Request { uri, source }
Request(u, src) == [uri |-> u, source |-> src]

\* what check() accepts: a raw string, or a Request
CheckInputs ==
    { [form |-> "str", str |-> s, req |-> None] : s \in RawStrings }
    \cup { [form |-> "req", str |-> <<>>, req |-> Some(Request(u, src))] :
             u \in Uris, src \in Sources }

\* impl TryFrom<&str> for Request (and the identity conversion of a Request):
\* Ok(Request) or Err
Request_try_from(in) ==
    IF in.form = "req"
    THEN [ok |-> TRUE, req |-> in.req, err |-> None]
    ELSE LET u == Uri_try_from(in.str) IN
         IF IsSome(u)
         THEN [ok |-> TRUE, req |-> Some(Request(Unwrap(u), Input_String(in.str))), err |-> None]
         ELSE [ok |-> FALSE, req |-> None, err |-> Some(UrlParseError(in.str))]

\* Response::new as it would be if the source were rebuilt from the uri's text
Response_new_source_of_uri(u, st, src) == <<Input_String(u.url), [uri |-> u, status |-> st]>>

\* Response::new(uri, status, source) = Response(source, ResponseBody { uri, status })
Response_new(u, st, src) == <<src, [uri |-> u, status |-> st]>>
\* Response::status
Response_status(r) == r[2].status

----------------------------------------------------------------------------
(* ClientBuilder and Filter *)

\* the options of ClientBuilderInternal that decide a check's outcome
BuilderFields ==
    { "github_token", "includes", "excludes", "exclude_all_private",
      "exclude_private_ips", "exclude_link_local_ips", "exclude_loopback_ips",
      "exclude_mail", "scheme", "accepted" }

\* the values a caller gives each option (the field's own type)
OptionValues(f) ==
    CASE f = "github_token" -> { None, Some(<<>>), Some(<<"ghp_token">>) }
      [] f = "includes" -> { None, Some({"github.com"}) }
      [] f = "excludes" -> { None, Some({"lycheeverse"}) }
      [] f = "scheme" -> { None, Some("HTTPS") }
      [] f = "accepted" -> { None, Some({404}), Some({301}) }
      [] OTHER -> { TRUE, FALSE }

\* ClientBuilder::default(): every field unset
DefaultBuilder == [f \in BuilderFields |-> None]

\* the generated setters wrap the value: self.field = Some(value.into())
SetField(b, f, v) == [b EXCEPT ![f] = Some(v)]

NumSet(b) == Cardinality({ f \in BuilderFields : IsSome(b[f]) })

\* str::to_lowercase on the scheme names in use
to_lowercase(s) ==
    CASE s = "HTTPS" -> "https"
      [] s = "HTTP" -> "http"
      [] OTHER -> s

\* the closure as it would be if a toggle set to false overrode exclude_all_private
enable_exclude_unless_false(exclude_all_private, opt) ==
    (exclude_all_private /\ opt /= Some(FALSE)) \/ opt = Some(TRUE)

\* the closure of build_excludes: |opt| exclude_all_private || matches!(opt, Some(true))
enable_exclude(exclude_all_private, opt) ==
    exclude_all_private \/ opt = Some(TRUE)

\* ClientBuilder::build_excludes
build_excludes(b) ==
    LET exclude_all_private == b.exclude_all_private = Some(TRUE) IN
    [ regex |-> Flatten(b.excludes),
      private_ips |-> enable_exclude(exclude_all_private, b.exclude_private_ips),
      link_local_ips |-> enable_exclude(exclude_all_private, b.exclude_link_local_ips),
      loopback_ips |-> enable_exclude(exclude_all_private, b.exclude_loopback_ips),
      mail |-> UnwrapOrFalse(b.exclude_mail) ]

\* build_includes as it would be if an unset includes became an empty pattern set
build_includes_or_default(b) ==
    [ regex |-> IF IsSome(Flatten(b.includes)) THEN Flatten(b.includes) ELSE Some({}) ]

\* ClientBuilder::build_includes
build_includes(b) == [ regex |-> Flatten(b.includes) ]

\* Filter::new(Some(includes), Some(excludes), scheme)
Filter_new(includes, excludes, sch) ==
    [ includes |-> includes, excludes |-> excludes, scheme |-> sch ]

\* the github client as it would be built if an empty token were a token
build_github_client_any_token(b) ==
    LET token == Flatten(b.github_token) IN
    IF IsSome(token)
    THEN Some([credentials |-> Unwrap(token)])
    ELSE None

\* the github client of build(): Some only for a non-empty token
build_github_client(b) ==
    LET token == Flatten(b.github_token) IN
    IF IsSome(token) /\ Unwrap(token) /= <<>>
    THEN Some([credentials |-> Unwrap(token)])
    ELSE None

\* ClientBuilder::build
build(b) ==
    LET sch == Flatten(b.scheme) IN
    [ github_client |-> build_github_client(b),
      filter |-> Filter_new(build_includes(b), build_excludes(b),
                            IF IsSome(sch) THEN Some(to_lowercase(Unwrap(sch))) ELSE None),
      accepted |-> Flatten(b.accepted) ]

\* a pattern of a RegexSet matches a URI whose text contains it
regex_is_match(set, u) == \E i \in 1..Len(u.url) : u.url[i] \in set

\* Filter::is_excluded
is_excluded(filter, u) ==
    \/ IsSome(filter.scheme) /\ scheme(u) /= Unwrap(filter.scheme)
    \/ scheme(u) = "mailto" /\ filter.excludes.mail
    \/ IsSome(filter.excludes.regex) /\ regex_is_match(Unwrap(filter.excludes.regex), u)
    \/ host_ip_class(u) = "private" /\ filter.excludes.private_ips
    \/ host_ip_class(u) = "link_local" /\ filter.excludes.link_local_ips
    \/ host_ip_class(u) = "loopback" /\ filter.excludes.loopback_ips
    \/ IsSome(filter.includes.regex) /\ ~regex_is_match(Unwrap(filter.includes.regex), u)

----------------------------------------------------------------------------
(* What the network answers *)

\* the HTTP status codes a probed server answers with
HttpCodes == { 200, 301, 404 }

\* the reqwest::Error values of a failed execute: [is_timeout, status, msg]
ReqwestErrors ==
    { [is_timeout |-> TRUE, status |-> None, msg |-> <<"operation timed out">>],
      [is_timeout |-> FALSE, status |-> None, msg |-> <<"connection refused">>] }

\* the reqwest::Error of a request that cannot be built
BuilderError == [is_timeout |-> FALSE, status |-> None, msg |-> <<"builder error">>]

\* what reqwest_client.execute(request).await yields: Ok(response) or Err(e)
ExecuteOutcomes ==
    { [ok |-> TRUE, code |-> c, err |-> None] : c \in HttpCodes }
    \cup { [ok |-> FALSE, code |-> 0, err |-> Some(e)] : e \in ReqwestErrors }

\* what github.repo(owner, repo).get().await yields: Ok(repo) or Err(hubcaps::Error)
RepoGetOutcomes ==
    { [ok |-> TRUE, err |-> <<>>],
      [ok |-> FALSE, err |-> <<"404 Not Found">>],
      [ok |-> FALSE, err |-> <<"403 rate limit exceeded">>] }

\* check_if_email_exists::Reachable
Reachable == { "Safe", "Risky", "Invalid", "Unknown" }

----------------------------------------------------------------------------
(* Client *)

\* what an awaited call answered: from is the call, val its Result
Answer(from, val) == [from |-> from, val |-> val]

\* an event of the trace: a call (check_default, check_github), a request put on
\* the wire (execute, repo_get, check_email), a sleep of arg seconds, or a return
\* (.._ret, arg 1 for a success and 0 otherwise)
Ev(op, arg) == [op |-> op, arg |-> arg]

\* check() as it would be with the scheme looked at before the filter
check_branch_scheme_first(filter, u) ==
    IF scheme(u) = "mailto" THEN "check_mail"
    ELSE IF is_excluded(filter, u) THEN "excluded"
    ELSE "check_website"

\* check() as it would be without the mailto branch
check_branch_no_mail(filter, u) ==
    IF is_excluded(filter, u) THEN "excluded" ELSE "check_website"

\* check(): the branch taken for a coerced request
check_branch(filter, u) ==
    IF is_excluded(filter, u) THEN "excluded"
    ELSE IF scheme(u) = "mailto" THEN "check_mail"
    ELSE "check_website"

\* the loop as it would be if a 4xx answer, which will not change, ended it
while_step_give_up_on_4xx(r, st) ==
    IF r > 0
    THEN IF st.tag = "Ok" THEN "return"
         ELSE IF st.tag = "Error" /\ st.code /= <<>> /\ st.code[1] \in 400..499 THEN "exit"
         ELSE "retry"
    ELSE "exit"

\* the loop as it would be without the early return on success
while_step_no_return(r, st) ==
    IF r > 0 THEN "retry" ELSE "exit"

\* check_website(): one evaluation of the while loop's head and its first statement
while_step(r, st) ==
    IF r > 0
    THEN IF is_success(st) THEN "return" ELSE "retry"
    ELSE "exit"

\* check_website(): after the loop
after_loop(u) ==
    IF IsSome(extract_github(u)) THEN "check_github" ELSE "status"

\* the backoff as it would be if it grew by one second instead of doubling
next_wait_linear(w) == w + 1

\* check_website(): wait *= 2
next_wait(w) == w * BACKOFF_FACTOR

\* check_default(): whether reqwest_client.request(method, uri).build() is Ok;
\* the transport takes http and https URLs
request_builds(u) == scheme(u) \in { "http", "https" }

\* check_default(): the status of an executed request
check_default_status(o, accepted) ==
    IF o.ok
    THEN Status_new(o.code, accepted)
    ELSE Status_from_reqwest(Unwrap(o.err))

\* check_github(): the status of the repository query
check_github_status(o) ==
    IF o.ok
    THEN Ok(HTTP_OK)
    ELSE Status_from_error(HubcapsError(o.err))

\* check_mail() as it would be if only a Safe address counted as reachable
check_mail_status_safe_only(u, reach) ==
    IF reach /= "Safe"
    THEN Status_from_error(UnreachableEmailAddress(u))
    ELSE Ok(HTTP_OK)

\* check_mail(): the status of a reachability result
check_mail_status(u, reach) ==
    IF reach = "Invalid"
    THEN Status_from_error(UnreachableEmailAddress(u))
    ELSE Ok(HTTP_OK)

\* what check() returns
RetOk(resp) == [ok |-> TRUE, response |-> Some(resp), error |-> None]
RetErr(e) == [ok |-> FALSE, response |-> None, error |-> Some(e)]

\* check() as it would be if an Error status were propagated with `?`
Finish_propagating(st) ==
    /\ ret' = IF is_failure(st)
              THEN Some(RetErr([kind |-> "Status", text |-> st.msg]))
              ELSE Some(RetOk(Response_new(Unwrap(uri), st, Unwrap(source))))
    /\ pc' = "done"

\* check(): Ok(Response::new(uri, status, source))
Finish(st) ==
    /\ ret' = Some(RetOk(Response_new(Unwrap(uri), st, Unwrap(source))))
    /\ pc' = "done"

Init ==
    /\ builder = DefaultBuilder
    /\ client = None
    /\ pc = "builder"
    /\ input = None
    /\ uri = None
    /\ source = None
    /\ retries = 0
    /\ wait = 0
    /\ status = None
    /\ ret = None
    /\ trace = <<>>
    /\ answer = None
    /\ call = None
    /\ result = None
    /\ tasks = <<>>
    /\ stats = None
    /\ added = <<>>

\* a setter of the builder
Set ==
    /\ pc = "builder"
    /\ NumSet(builder) < MaxOptions
    /\ \E f \in BuilderFields :
         /\ builder[f] = None
         /\ \E v \in OptionValues(f) : builder' = SetField(builder, f, v)
    /\ UNCHANGED <<client, pc, input, uri, source, retries, wait, status, ret, trace>>
    /\ UNCHANGED <<answer, call, result, tasks, stats, added>>

\* ClientBuilder::build
Build ==
    /\ pc = "builder"
    /\ client' = Some(build(builder))
    /\ pc' = "idle"
    /\ UNCHANGED <<builder, input, uri, source, retries, wait, status, ret, trace>>
    /\ UNCHANGED <<answer, call, result, tasks, stats, added>>

\* Client::check, up to its first .await
Check ==
    /\ pc = "idle"
    /\ \E in \in CheckInputs :
         LET r == Request_try_from(in) IN
         /\ input' = Some(in)
         /\ IF ~r.ok
            THEN /\ ret' = Some(RetErr(Unwrap(r.err)))
                 /\ pc' = "done"
                 /\ UNCHANGED <<uri, source, trace>>
            ELSE LET req == Unwrap(r.req)
                     branch == check_branch(Unwrap(client).filter, req.uri)
                 IN  /\ uri' = Some(req.uri)
                     /\ source' = Some(req.source)
                     /\ trace' = Append(trace, Ev("is_excluded", 0))
                     /\ IF branch = "excluded"
                        THEN /\ ret' = Some(RetOk(Response_new(req.uri, Excluded, req.source)))
                             /\ pc' = "done"
                        ELSE /\ pc' = branch
                             /\ UNCHANGED ret
    /\ UNCHANGED <<builder, client, retries, wait, status>>
    /\ UNCHANGED <<answer, call, result, tasks, stats, added>>

\* Client::check_mail: check_email(&input) is started
CheckMail ==
    /\ pc = "check_mail"
    /\ trace' = Append(trace, Ev("check_email", 0))
    /\ pc' = "check_email"
    /\ UNCHANGED <<builder, client, input, uri, source, retries, wait, status, ret>>
    /\ UNCHANGED <<answer, call, result, tasks, stats, added>>

\* Client::check_mail: check_email(&input).await has answered
CheckEmailDone ==
    /\ pc = "check_email"
    /\ \E reach \in Reachable :
         /\ Finish(check_mail_status(Unwrap(uri), reach))
         /\ answer' = Some(Answer("check_email", reach))
    /\ UNCHANGED <<builder, client, input, uri, source, retries, wait, status, trace>>
    /\ UNCHANGED <<call, result, tasks, stats, added>>

\* Client::check_website: the locals, before the first check_default
CheckWebsite ==
    /\ pc = "check_website"
    /\ retries' = RETRIES
    /\ wait' = WAIT
    /\ pc' = "check_default"
    /\ UNCHANGED <<builder, client, input, uri, source, status, ret, trace>>
    /\ UNCHANGED <<answer, call, result, tasks, stats, added>>

\* Client::check_default: the request is built and, if that worked, sent
CheckDefault ==
    /\ pc = "check_default"
    /\ IF request_builds(Unwrap(uri))
       THEN /\ trace' = trace \o <<Ev("check_default", 0), Ev("execute", 0)>>
            /\ pc' = "execute"
            /\ UNCHANGED <<status, answer>>
       ELSE /\ trace' = trace \o <<Ev("check_default", 0), Ev("build_error", 0),
                                    Ev("check_default_ret", 0)>>
            /\ status' = Some(Status_from_reqwest(BuilderError))
            /\ answer' = Some(Answer("build", BuilderError))
            /\ pc' = "while"
    /\ UNCHANGED <<builder, client, input, uri, source, retries, wait, ret>>
    /\ UNCHANGED <<call, result, tasks, stats, added>>

\* the probe as it would be if the status of the first failed probe were kept
\* when a later probe fails too
ExecuteDone_keeping_first ==
    /\ pc = "execute"
    /\ \E o \in ExecuteOutcomes :
         LET st == check_default_status(o, Unwrap(client).accepted) IN
         /\ status' = IF status /= None /\ ~is_success(st) THEN status ELSE Some(st)
         /\ trace' = Append(trace, Ev("check_default_ret", IF is_success(st) THEN 1 ELSE 0))
         /\ answer' = Some(Answer("execute", o))
    /\ pc' = "while"
    /\ UNCHANGED <<builder, client, input, uri, source, retries, wait, ret>>
    /\ UNCHANGED <<call, result, tasks, stats, added>>

\* Client::check_default: reqwest_client.execute(request).await has answered
ExecuteDone ==
    /\ pc = "execute"
    /\ \E o \in ExecuteOutcomes :
         LET st == check_default_status(o, Unwrap(client).accepted) IN
         /\ status' = Some(st)
         /\ trace' = Append(trace, Ev("check_default_ret", IF is_success(st) THEN 1 ELSE 0))
         /\ answer' = Some(Answer("execute", o))
    /\ pc' = "while"
    /\ UNCHANGED <<builder, client, input, uri, source, retries, wait, ret>>
    /\ UNCHANGED <<call, result, tasks, stats, added>>

\* the loop as it would be if `retries -= 1` were missing
While_no_decrement ==
    /\ pc = "while"
    /\ LET step == while_step(retries, Unwrap(status)) IN
       IF step = "return"
       THEN /\ Finish(Unwrap(status))
            /\ UNCHANGED trace
       ELSE IF step = "retry"
       THEN /\ trace' = Append(trace, Ev("sleep", wait))
            /\ pc' = "sleep"
            /\ UNCHANGED ret
       ELSE IF after_loop(Unwrap(uri)) = "check_github"
       THEN /\ pc' = "check_github"
            /\ UNCHANGED <<trace, ret>>
       ELSE /\ Finish(Unwrap(status))
            /\ UNCHANGED trace
    /\ UNCHANGED <<builder, client, input, uri, source, retries, wait, status>>
    /\ UNCHANGED <<answer, call, result, tasks, stats, added>>

\* the loop as it would be if the backoff sleep were started but not awaited
While_sleep_not_awaited ==
    /\ pc = "while"
    /\ LET step == while_step(retries, Unwrap(status)) IN
       IF step = "return"
       THEN /\ Finish(Unwrap(status))
            /\ UNCHANGED <<retries, trace>>
       ELSE IF step = "retry"
       THEN /\ retries' = retries - 1
            /\ trace' = Append(trace, Ev("sleep", wait))
            /\ pc' = "check_default"
            /\ UNCHANGED ret
       ELSE IF after_loop(Unwrap(uri)) = "check_github"
       THEN /\ pc' = "check_github"
            /\ UNCHANGED <<retries, trace, ret>>
       ELSE /\ Finish(Unwrap(status))
            /\ UNCHANGED <<retries, trace>>
    /\ UNCHANGED <<builder, client, input, uri, source, wait, status>>
    /\ UNCHANGED <<answer, call, result, tasks, stats, added>>

\* Client::check_website: the head of the while loop, and what follows the loop
While ==
    /\ pc = "while"
    /\ LET step == while_step(retries, Unwrap(status)) IN
       IF step = "return"
       THEN /\ Finish(Unwrap(status))
            /\ UNCHANGED <<retries, trace>>
       ELSE IF step = "retry"
       THEN /\ retries' = retries - 1
            /\ trace' = Append(trace, Ev("sleep", wait))
            /\ pc' = "sleep"
            /\ UNCHANGED ret
       ELSE IF after_loop(Unwrap(uri)) = "check_github"
       THEN /\ pc' = "check_github"
            /\ UNCHANGED <<retries, trace, ret>>
       ELSE /\ Finish(Unwrap(status))
            /\ UNCHANGED <<retries, trace>>
    /\ UNCHANGED <<builder, client, input, uri, source, wait, status>>
    /\ UNCHANGED <<answer, call, result, tasks, stats, added>>

\* Client::check_website: sleep(..).await is over
SleepDone ==
    /\ pc = "sleep"
    /\ wait' = next_wait(wait)
    /\ trace' = Append(trace, Ev("sleep_ret", 0))
    /\ pc' = "check_default"
    /\ UNCHANGED <<builder, client, input, uri, source, retries, status, ret>>
    /\ UNCHANGED <<answer, call, result, tasks, stats, added>>

\* check_github as it would be if it queried the API anonymously without a client
CheckGithub_anonymous ==
    /\ pc = "check_github"
    /\ trace' = trace \o <<Ev("check_github", 0), Ev("repo_get", 0)>>
    /\ pc' = "repo_get"
    /\ UNCHANGED <<builder, client, input, uri, source, retries, wait, status, ret>>
    /\ UNCHANGED <<answer, call, result, tasks, stats, added>>

\* Client::check_github: the match on github_client
CheckGithub ==
    /\ pc = "check_github"
    /\ IF IsSome(Unwrap(client).github_client)
       THEN /\ trace' = trace \o <<Ev("check_github", 0), Ev("repo_get", 0)>>
            /\ pc' = "repo_get"
            /\ UNCHANGED ret
       ELSE /\ trace' = Append(trace, Ev("check_github", 0))
            /\ Finish(Status_from_error(MissingGitHubToken))
    /\ UNCHANGED <<builder, client, input, uri, source, retries, wait, status>>
    /\ UNCHANGED <<answer, call, result, tasks, stats, added>>

\* Client::check_github: github.repo(owner, repo).get().await has answered
RepoGetDone ==
    /\ pc = "repo_get"
    /\ \E o \in RepoGetOutcomes :
         /\ Finish(check_github_status(o))
         /\ trace' = Append(trace, Ev("repo_get_ret", IF o.ok THEN 1 ELSE 0))
         /\ answer' = Some(Answer("repo_get", o))
    /\ UNCHANGED <<builder, client, input, uri, source, retries, wait, status>>
    /\ UNCHANGED <<call, result, tasks, stats, added>>

\* the caller takes the result; the client is ready for the next check()
NextCall ==
    /\ pc = "done"
    /\ pc' = "idle"
    /\ input' = None
    /\ uri' = None
    /\ source' = None
    /\ retries' = 0
    /\ wait' = 0
    /\ status' = None
    /\ ret' = None
    /\ trace' = <<>>
    /\ answer' = None
    /\ UNCHANGED <<builder, client, call, result, tasks, stats, added>>

Next ==
    \/ Set
    \/ Build
    \/ Check
    \/ CheckMail
    \/ CheckEmailDone
    \/ CheckWebsite
    \/ CheckDefault
    \/ ExecuteDone
    \/ While
    \/ SleepDone
    \/ CheckGithub
    \/ RepoGetDone
    \/ NextCall

Spec == Init /\ [][Next]_vars

----------------------------------------------------------------------------
(* Reading the state *)

\* how many events of the trace are op
Count(op) == Cardinality({ i \in 1..Len(trace) : trace[i].op = op })

\* the seconds slept by the call, in order
SleepArgs ==
    LET s == SelectSeq(trace, LAMBDA e : e.op = "sleep")
    IN  [i \in 1..Len(s) |-> s[i].arg]

RECURSIVE SumSeq(_)
SumSeq(s) == IF s = <<>> THEN 0 ELSE s[1] + SumSeq(Tail(s))

IsPrefix(s, full) == Len(s) <= Len(full) /\ \A i \in 1..Len(s) : s[i] = full[i]

\* check() has returned Ok(response)
ReturnedOk == pc = "done" /\ Unwrap(ret).ok
\* the status of the returned response
RetStatus == Response_status(Unwrap(Unwrap(ret).response))
\* the current request's uri is excluded by the client's filter
UriExcluded == IsSome(uri) /\ is_excluded(Unwrap(client).filter, Unwrap(uri))
\* every check_default of the call so far returned a non-success status
AllProbesFailed ==
    \A i \in 1..Len(trace) : trace[i].op = "check_default_ret" => trace[i].arg = 0

----------------------------------------------------------------------------
(* Claims *)

\* C1: when the filter excludes the request's URI, check() returns a Response
\* with status Excluded, and the call issues no HTTP probe, no mail probe, no
\* provider-API call and no backoff sleep: consulting the filter is all it does.
C1_ExcludedNoProbe ==
    UriExcluded =>
        /\ ReturnedOk
        /\ RetStatus = Excluded
        /\ \A i \in 1..Len(trace) : trace[i].op = "is_excluded"

C1_Witness ==
    /\ UriExcluded
    /\ ReturnedOk
    /\ RetStatus = Excluded
    /\ scheme(Unwrap(uri)) = "mailto"

\* C2: the provider fallback (check_github) is entered only when the last probe
\* of the retry loop returned a non-success status and extract_github() yields
\* (owner, repo); when the last probe returned a success status, the fallback
\* is never entered and check_website returns that status.
C2_FallbackOnlyAfterFailure ==
    /\ (pc = "check_github" \/ Count("check_github") > 0) =>
           /\ ~is_success(Unwrap(status))
           /\ IsSome(extract_github(Unwrap(uri)))
    /\ (ReturnedOk /\ IsSome(status) /\ is_success(Unwrap(status))) =>
           /\ Count("check_github") = 0
           /\ RetStatus = Unwrap(status)

\* C3: a check_website call makes at most 1 + RETRIES = 4 probes, exactly 4
\* when every probe returned a non-success status, and after a probe that
\* returned a success status it makes no further probe and no sleep.
C3_AtMostFourProbes ==
    /\ Count("check_default") <= 1 + RETRIES
    /\ (pc = "done" /\ Count("check_default") > 0 /\ AllProbesFailed) =>
           Count("check_default") = 1 + RETRIES
    /\ \A i \in 1..Len(trace) :
           trace[i] = Ev("check_default_ret", 1) =>
               \A j \in (i + 1)..Len(trace) :
                   trace[j].op \notin { "check_default", "execute", "sleep" }

C3_Witness ==
    /\ pc = "done"
    /\ AllProbesFailed
    /\ Count("check_default") = 4
    /\ Count("execute") = 4

\* C4: the sleeps of a check_website call are 1s, 2s, 4s in that order; a call
\* that ends with a non-success status, or that enters the provider fallback,
\* has slept exactly 7 seconds, and no call sleeps more than 7 seconds.
C4_Backoff ==
    /\ IsPrefix(SleepArgs, <<1, 2, 4>>)
    /\ SumSeq(SleepArgs) <= 7
    /\ (ReturnedOk /\ Count("check_default") > 0 /\ ~is_success(RetStatus)) =>
           SumSeq(SleepArgs) = 7
    /\ (pc = "check_github" \/ Count("check_github") > 0) =>
           SumSeq(SleepArgs) = 7

C4_Witness ==
    /\ ReturnedOk
    /\ ~is_success(RetStatus)
    /\ Count("check_github") = 0
    /\ SleepArgs = <<1, 2, 4>>

\* C5: for a URI the filter does not exclude, check() dispatches by scheme: a
\* mailto URI is handled by the mail prober alone (no check_default, no sleep,
\* no provider fallback), every other URI by check_website alone (the mail
\* prober is never called).
C5_DispatchByScheme ==
    (IsSome(uri) /\ ~UriExcluded) =>
        IF scheme(Unwrap(uri)) = "mailto"
        THEN /\ pc \in { "check_mail", "check_email", "done" }
             /\ \A i \in 1..Len(trace) : trace[i].op \in { "is_excluded", "check_email" }
             /\ pc = "done" => Count("check_email") = 1
        ELSE /\ pc \notin { "check_mail", "check_email" }
             /\ Count("check_email") = 0
             /\ pc = "done" => Count("check_default") >= 1

C5_Witness ==
    /\ ReturnedOk
    /\ ~UriExcluded
    /\ scheme(Unwrap(uri)) = "mailto"
    /\ Count("check_email") = 1

\* C6: in the provider fallback, a client without a credential returns
\* Error(MissingGitHubToken) and sends no API request (the status of the origin
\* is dropped); a client with a credential sends one repository query and
\* returns Ok(200) when it succeeds and an Error when it fails.
C6_ProviderFallback ==
    /\ Count("repo_get") > 0 => IsSome(Unwrap(client).github_client)
    /\ (pc = "done" /\ Count("check_github") > 0) =>
           IF IsSome(Unwrap(client).github_client)
           THEN /\ Count("repo_get") = 1
                /\ trace[Len(trace)].op = "repo_get_ret"
                /\ trace[Len(trace)].arg = 1 => RetStatus = Ok(200)
                /\ trace[Len(trace)].arg = 0 => is_failure(RetStatus)
           ELSE /\ Count("repo_get") = 0
                /\ RetStatus = Error(MissingGitHubToken.text, None)

C6_Witness ==
    /\ ReturnedOk
    /\ Count("check_github") = 1
    /\ Unwrap(client).github_client = None
    /\ RetStatus = Error(MissingGitHubToken.text, None)
    /\ Unwrap(status) = Error(<<>>, Some(404))

\* C7: when check_default fails to build the request, check() yields that
\* Error directly: no further probe and no backoff sleep follows in the call.
C7_BuildErrorNotRetried ==
    /\ \A i \in 1..Len(trace) :
           trace[i].op = "build_error" =>
               \A j \in (i + 1)..Len(trace) :
                   trace[j].op \notin { "check_default", "execute", "sleep" }
    /\ (ReturnedOk /\ Count("build_error") > 0) =>
           /\ Count("check_default") = 1
           /\ RetStatus = Status_from_reqwest(BuilderError)

\* C8: check() returns Err exactly when the input does not coerce into a
\* Request, and then nothing was done (no filter, no probe); whatever fails
\* after the coercion comes back as the status of an Ok(Response).
C8_OnlyCoercionFails ==
    /\ IsSome(ret) <=> pc = "done"
    /\ pc = "done" =>
           LET r == Request_try_from(Unwrap(input)) IN
           /\ Unwrap(ret).ok <=> r.ok
           /\ ~Unwrap(ret).ok => (trace = <<>> /\ Unwrap(ret).error = r.err)
           /\ Unwrap(ret).ok => IsSome(Unwrap(ret).response)

C8_Witness ==
    /\ pc = "done"
    /\ ~Unwrap(ret).ok
    /\ Unwrap(ret).error = Some(UrlParseError(<<"not a uri">>))
    /\ trace = <<>>

\* C9: for an input that coerces to Request { uri, source }, the Response that
\* check() returns has that uri and that source, on every path and after any
\* number of retries.
C9_ResponseCarriesRequest ==
    (pc = "done" /\ Request_try_from(Unwrap(input)).ok) =>
        LET req == Unwrap(Request_try_from(Unwrap(input)).req)
            resp == Unwrap(Unwrap(ret).response)
        IN  /\ Unwrap(ret).ok
            /\ resp[1] = req.source
            /\ resp[2].uri = req.uri

C9_Witness ==
    /\ ReturnedOk
    /\ Unwrap(input).form = "str"
    /\ Unwrap(input).str = <<"user@example.com">>
    /\ Unwrap(Unwrap(ret).response)[1] = Input_String(<<"user@example.com">>)
    /\ Unwrap(Unwrap(ret).response)[2].uri = MkUri(<<"mailto", "user@example.com">>)

\* a success status is Ok(c) with c a 2xx code or a code of the accepted set
SuccessIsAccepted(st) ==
    /\ is_success(st) =>
           /\ st.tag = "Ok"
           /\ IsSome(st.code)
           /\ \/ Unwrap(st.code) \in 200..299
              \/ /\ IsSome(Unwrap(client).accepted)
                 /\ Unwrap(st.code) \in Unwrap(Unwrap(client).accepted)
    /\ st.tag \in { "Excluded", "Redirected", "Timeout", "Error" } => ~is_success(st)

\* C10: every status check() returns, and every status a probe hands to the
\* retry loop, is a success only if it is Ok(c) with c a 2xx code or a member
\* of the accepted set; Excluded, Redirected, Timeout and Error are no successes.
C10_SuccessMeansAccepted ==
    /\ ReturnedOk => SuccessIsAccepted(RetStatus)
    /\ IsSome(status) => SuccessIsAccepted(Unwrap(status))

C10_Witness ==
    /\ ReturnedOk
    /\ RetStatus = Ok(404)
    /\ Unwrap(client).accepted = Some({404})

----------------------------------------------------------------------------
\* the reqwest::Error of the call's last probe, if the probe ended with one
ProbeError ==
    IF answer = None THEN None
    ELSE IF Unwrap(answer).from = "build" THEN Some(Unwrap(answer).val)
    ELSE IF Unwrap(answer).from = "execute" /\ ~Unwrap(answer).val.ok
    THEN Unwrap(answer).val.err
    ELSE None

\* C12: a transport error that is a timeout becomes Timeout(status?), every other
\* one Error(message, status?); so a check of a URI without provider fallback
\* whose probes time out returns a Timeout status, neither success nor failure.
C12_TimeoutStatus ==
    /\ pc = "while" /\ ProbeError /= None =>
          LET e == Unwrap(ProbeError) IN
          /\ e.is_timeout => status = Some(Timeout(e.status))
          /\ ~e.is_timeout => status = Some(Error(e.msg, e.status))
    /\ ( /\ ReturnedOk
         /\ extract_github(Unwrap(uri)) = None
         /\ ProbeError /= None
         /\ Unwrap(ProbeError).is_timeout )
       => /\ RetStatus.tag = "Timeout"
          /\ ~is_success(RetStatus)
          /\ ~is_failure(RetStatus)

\* a check of http://example.com has returned Timeout after four probes, the last
\* of which timed out
C12_Witness ==
    /\ ReturnedOk
    /\ extract_github(Unwrap(uri)) = None
    /\ Count("check_default_ret") = RETRIES + 1
    /\ AllProbesFailed
    /\ ProbeError /= None
    /\ Unwrap(ProbeError).is_timeout
    /\ RetStatus = Timeout(None)

----------------------------------------------------------------------------
\* check() has returned from check_mail
ReturnedFromMail ==
    /\ ReturnedOk
    /\ answer /= None
    /\ Unwrap(answer).from = "check_email"

\* C13: check_mail returns Error(UnreachableEmailAddress(uri)) when the address is
\* Invalid and Ok(200) for every other reachability; a check calls it once, and
\* neither retries nor sleeps.
C13_MailProbe ==
    /\ ReturnedFromMail =>
          LET reach == Unwrap(answer).val IN
          /\ reach = "Invalid" =>
                /\ is_failure(RetStatus)
                /\ RetStatus.msg = UnreachableEmailAddress(Unwrap(uri)).text
          /\ reach /= "Invalid" => RetStatus = Ok(200)
    /\ (ReturnedOk /\ scheme(Unwrap(uri)) = "mailto" /\ ~UriExcluded) =>
          /\ ReturnedFromMail
          /\ Count("check_email") = 1
          /\ Count("sleep") = 0
          /\ Count("check_default") = 0

\* a check of a mail address found Risky has returned Ok(200)
C13_Witness ==
    /\ ReturnedFromMail
    /\ Unwrap(answer).val = "Risky"
    /\ RetStatus = Ok(200)
    /\ Count("check_email") = 1

----------------------------------------------------------------------------
\* the builder's github_token was set to a non-empty string
TokenGiven ==
    /\ builder.github_token /= None
    /\ Unwrap(builder.github_token) /= None
    /\ Unwrap(Unwrap(builder.github_token)) /= <<>>

\* C18: the built Client has a provider client exactly when github_token was set
\* to a non-empty string; with the token unset, set to none or set to the empty
\* string, every provider fallback returns Error(MissingGitHubToken).
C18_ProviderClient ==
    client /= None =>
        /\ Unwrap(client).github_client /= None <=> TokenGiven
        /\ (ReturnedOk /\ Count("check_github") > 0 /\ ~TokenGiven) =>
              /\ is_failure(RetStatus)
              /\ RetStatus.msg = MissingGitHubToken.text
              /\ Count("repo_get") = 0

\* with github_token(""), a provider fallback has returned Error(MissingGitHubToken)
C18_Witness ==
    /\ builder.github_token = Some(Some(<<>>))
    /\ ReturnedOk
    /\ Count("check_github") = 1
    /\ RetStatus = Error(MissingGitHubToken.text, None)

----------------------------------------------------------------------------
\* the starts and ends of the call's probes and sleeps, and the start of its
\* provider query, in the order they happened
Steps ==
    SelectSeq(trace, LAMBDA e : e.op \in { "check_default", "check_default_ret",
                                           "sleep", "sleep_ret", "check_github" })

\* how many probes, sleeps and provider queries have started and not ended
InProgress ==
    (Count("check_default") - Count("check_default_ret"))
    + (Count("sleep") - Count("sleep_ret"))
    + (Count("repo_get") - Count("repo_get_ret"))

\* C20: within one check() at most one probe or sleep is in progress, and they
\* alternate probe, sleep, probe, sleep, ...: a sleep starts only after a probe
\* has returned, a retry probe only after the sleep before it is over, and the
\* provider query only after the last probe has returned, with nothing after it.
C20_StrictOrder ==
    LET S == Steps
        op == [i \in 1..Len(S) |-> S[i].op]
    IN  /\ InProgress \in {0, 1}
        /\ S /= <<>> => op[1] = "check_default"
        /\ \A i \in 2..Len(S) :
             /\ op[i] = "check_default" => op[i - 1] = "sleep_ret"
             /\ op[i] = "check_default_ret" => op[i - 1] = "check_default"
             /\ op[i] = "sleep" => op[i - 1] = "check_default_ret"
             /\ op[i] = "sleep_ret" => op[i - 1] = "sleep"
             /\ op[i] = "check_github" =>
                   op[i - 1] = "check_default_ret" /\ i = Len(S)

\* a call has gone through four probes and three sleeps and is in its provider query
C20_Witness ==
    /\ pc = "repo_get"
    /\ InProgress = 1
    /\ Count("check_default_ret") = RETRIES + 1
    /\ Count("sleep_ret") = RETRIES
    /\ Steps[Len(Steps)].op = "check_github"

----------------------------------------------------------------------------
\* the seconds of the sleep that follows n earlier sleeps: 1, 2, 4, ...
RECURSIVE SleepOfAttempt(_)
SleepOfAttempt(n) == IF n = 0 THEN 1 ELSE 2 * SleepOfAttempt(n - 1)

\* C22: while retries remain, every status that is not a success (an Error with
\* any code, a Redirected, a Timeout) is followed by a sleep and then by another
\* probe, and the sleep's length is set by the number of the attempt alone.
C22_RetryOnAnyFailure ==
    [][ /\ ( /\ pc = "while"
             /\ retries > 0
             /\ Unwrap(status).tag \in {"Error", "Redirected", "Timeout"} )
           => /\ pc' = "sleep"
              /\ trace' = Append(trace, Ev("sleep", SleepOfAttempt(Count("sleep"))))
        /\ pc = "sleep" => pc' = "check_default"
        /\ (pc = "check_default" /\ Count("sleep") > 0) =>
              /\ Len(trace') > Len(trace)
              /\ trace'[Len(trace) + 1] = Ev("check_default", 0)
      ]_vars

\* after three answers that were not a success, the last a redirect, the call
\* has slept its third sleep of 4 seconds and sent its fourth probe
C22_Witness ==
    /\ pc = "execute"
    /\ status = Some(Redirected(301))
    /\ SleepArgs = <<1, 2, 4>>
    /\ Count("check_default") = RETRIES + 1

----------------------------------------------------------------------------
\* the status that the answer to the call's last probe amounts to
LastProbeStatus ==
    LET a == Unwrap(answer) IN
    IF a.from = "build"
    THEN Status_from_reqwest(a.val)
    ELSE check_default_status(a.val, Unwrap(client).accepted)

\* C23: for a URI that extract_github does not match, check_website returns the
\* status of the last probe it made, as it is: same variant, code and message.
C23_LastProbeStatus ==
    ( /\ ReturnedOk
      /\ Count("check_default") > 0
      /\ extract_github(Unwrap(uri)) = None )
    => /\ answer /= None
       /\ Unwrap(answer).from \in {"build", "execute"}
       /\ RetStatus = LastProbeStatus
       /\ Count("check_github") = 0

\* a check of a URI without provider match has returned, after four probes, the
\* connection error of the fourth
C23_Witness ==
    /\ ReturnedOk
    /\ extract_github(Unwrap(uri)) = None
    /\ Count("check_default_ret") = RETRIES + 1
    /\ ProbeError /= None
    /\ ~Unwrap(ProbeError).is_timeout
    /\ Unwrap(answer).from = "execute"
    /\ RetStatus = Error(<<"connection refused">>, None)

----------------------------------------------------------------------------
(* Termination.  The executor keeps polling the future of a call, and every *)
(* probe, provider query, reachability test and sleep it awaits completes:  *)
(* each step of a call that is enabled is eventually taken.  Nothing forces *)
(* a caller to set options, to build, to call check() or to call it again.  *)

Fairness ==
    /\ WF_vars(CheckMail)
    /\ WF_vars(CheckEmailDone)
    /\ WF_vars(CheckWebsite)
    /\ WF_vars(CheckDefault)
    /\ WF_vars(ExecuteDone)
    /\ WF_vars(While)
    /\ WF_vars(SleepDone)
    /\ WF_vars(CheckGithub)
    /\ WF_vars(RepoGetDone)

SpecLive == Init /\ [][Next]_vars /\ Fairness

\* a check() call is under way
Running == pc \notin {"builder", "idle", "done"}

\* the retry counter goes down from RETRIES by one per sleep and never below 0,
\* so the loop runs at most RETRIES times; a call has a result exactly when it
\* has returned
CounterBounded ==
    /\ retries \in 0..RETRIES
    /\ Count("sleep") <= RETRIES
    /\ Count("check_default") > 0 => retries = RETRIES - Count("sleep")
    /\ ret /= None <=> pc = "done"

\* C21 as stated: every call eventually returns, and what it returns is one
\* Status; the retry counter goes from 3 down towards 0 and the loop runs at
\* most 3 times.
C21_ReturnsOneStatus ==
    /\ []CounterBounded
    /\ Running ~> pc = "done"
    /\ [](pc = "done" => Unwrap(ret).ok)

\* C21, amended: every call eventually returns, once: a Response with one Status
\* when the input coerces into a Request, the coercion error otherwise; the
\* retry counter goes from 3 down towards 0 and the loop runs at most 3 times.
C21_EveryCallReturns ==
    /\ []CounterBounded
    /\ Running ~> pc = "done"
    /\ [](pc = "done" =>
            IF Request_try_from(Unwrap(input)).ok
            THEN Unwrap(ret).ok /\ RetStatus.tag \in {"Ok", "Error", "Timeout", "Redirected", "Excluded"}
            ELSE ~Unwrap(ret).ok /\ Unwrap(ret).response = None)

\* a call has returned a Response after three sleeps, its counter at 0
C21_Witness ==
    /\ ReturnedOk
    /\ retries = 0
    /\ Count("sleep") = RETRIES
    /\ Count("check_default_ret") = RETRIES + 1

----------------------------------------------------------------------------
(* Cancellation.  check() takes no cancellation signal and none of its     *)
(* awaits is raced against one: the one way to cancel a call is to drop    *)
(* its future (or abort the task polling it) while it is suspended.        *)

\* the awaits of a check(): a probe, a backoff sleep, a provider query or a
\* reachability test is in progress
Suspended == pc \in {"execute", "sleep", "repo_get", "check_email"}

\* the future of the call is dropped at its current .await: nothing after that
\* await runs and nothing is returned
Cancel ==
    /\ Suspended
    /\ pc' = "cancelled"
    /\ trace' = Append(trace, Ev("cancel", 0))
    /\ UNCHANGED <<builder, client, input, uri, source, retries, wait, status, ret,
                   answer, call, result, tasks, stats, added>>

NextCancel ==
    \/ Next
    \/ Cancel

SpecCancel == Init /\ [][NextCancel]_vars

\* C14: a cancellation delivered while a probe or a backoff sleep is in progress
\* ends it and makes the call yield the status Error("cancelled").
C14_CancelYieldsError ==
    pc = "cancelled" =>
        /\ ret /= None
        /\ Unwrap(ret).ok
        /\ Response_status(Unwrap(Unwrap(ret).response)) = Error(<<"cancelled">>, None)

----------------------------------------------------------------------------
(* Concurrent check() calls on one Client.  check takes &self: the calls   *)
(* share the Client and nothing else; the locals of each call (uri,        *)
(* source, retries, wait, status) live in its own future.  Each task makes *)
(* one call; log is the list of the answers its awaits got.                *)

\* the tasks that share the Client
Tasks == {"t1", "t2"}

\* the locals of a task that has not called check() yet
NewTask ==
    [ pc |-> "idle", input |-> None, uri |-> None, source |-> None, retries |-> 0,
      wait |-> 0, status |-> None, ret |-> None, log |-> <<>> ]

\* the strings the tasks check
TaskInputs ==
    { [form |-> "str", str |-> s, req |-> None] :
        s \in { <<"https", "github.com", "lycheeverse", "lychee">>,
                <<"http", "example.com">>,
                <<"mailto", "user@example.com">>,
                <<"not a uri">> } }

\* the builders the shared Client is built from
TaskBuilders ==
    { DefaultBuilder,
      SetField(DefaultBuilder, "github_token", Some(<<"ghp_token">>)),
      SetField(DefaultBuilder, "accepted", Some({404})),
      SetField(DefaultBuilder, "exclude_mail", TRUE) }

\* what the await a task is suspended at can answer
TaskAnswers(at) ==
    CASE at = "execute" ->
           { o \in ExecuteOutcomes :
               IF o.ok THEN o.code \in {200, 404} ELSE Unwrap(o.err).is_timeout }
      [] at = "repo_get" -> RepoGetOutcomes
      [] at = "check_email" -> Reachable
      [] at = "sleep" -> { "elapsed" }

\* check(): Ok(Response::new(uri, status, source)), on the task's locals
task_finish(t, st) ==
    [t EXCEPT !.ret = Some(RetOk(Response_new(Unwrap(t.uri), st, Unwrap(t.source)))),
              !.pc = "done"]

\* Client::check up to its first .await, on the locals t of a task
task_start(c, t, in) ==
    LET r == Request_try_from(in) IN
    IF ~r.ok
    THEN [t EXCEPT !.input = Some(in), !.ret = Some(RetErr(Unwrap(r.err))), !.pc = "done"]
    ELSE LET req == Unwrap(r.req)
             branch == check_branch(c.filter, req.uri)
             t1 == [t EXCEPT !.input = Some(in), !.uri = Some(req.uri),
                             !.source = Some(req.source)]
         IN  IF branch = "excluded"
             THEN task_finish(t1, Excluded)
             ELSE [t1 EXCEPT !.pc = branch]

\* the code of a check() between two awaits, on the locals t of a task
task_run(c, t) ==
    CASE t.pc = "check_mail" -> [t EXCEPT !.pc = "check_email"]
      [] t.pc = "check_website" ->
           [t EXCEPT !.retries = RETRIES, !.wait = WAIT, !.pc = "check_default"]
      [] t.pc = "check_default" ->
           IF request_builds(Unwrap(t.uri))
           THEN [t EXCEPT !.pc = "execute"]
           ELSE [t EXCEPT !.status = Some(Status_from_reqwest(BuilderError)),
                          !.pc = "while"]
      [] t.pc = "while" ->
           LET step == while_step(t.retries, Unwrap(t.status)) IN
           IF step = "return" THEN task_finish(t, Unwrap(t.status))
           ELSE IF step = "retry"
           THEN [t EXCEPT !.retries = t.retries - 1, !.pc = "sleep"]
           ELSE IF after_loop(Unwrap(t.uri)) = "check_github"
           THEN [t EXCEPT !.pc = "check_github"]
           ELSE task_finish(t, Unwrap(t.status))
      [] t.pc = "check_github" ->
           IF IsSome(c.github_client)
           THEN [t EXCEPT !.pc = "repo_get"]
           ELSE task_finish(t, Status_from_error(MissingGitHubToken))

\* the code of a check() right after the await it was suspended at answered ans
task_resume(c, t, ans) ==
    LET t1 == [t EXCEPT !.log = Append(t.log, ans)] IN
    CASE t.pc = "execute" ->
           [t1 EXCEPT !.status = Some(check_default_status(ans, c.accepted)),
                      !.pc = "while"]
      [] t.pc = "sleep" -> [t1 EXCEPT !.wait = next_wait(t.wait), !.pc = "check_default"]
      [] t.pc = "repo_get" -> task_finish(t1, check_github_status(ans))
      [] t.pc = "check_email" ->
           task_finish(t1, check_mail_status(Unwrap(t.uri), ans))

TaskRunning(t) ==
    t.pc \in {"check_mail", "check_website", "check_default", "while", "check_github"}
TaskSuspended(t) == t.pc \in {"execute", "sleep", "repo_get", "check_email"}

InitTasks ==
    /\ builder \in TaskBuilders
    /\ client = Some(build(builder))
    /\ pc = "idle"
    /\ input = None
    /\ uri = None
    /\ source = None
    /\ retries = 0
    /\ wait = 0
    /\ status = None
    /\ ret = None
    /\ trace = <<>>
    /\ answer = None
    /\ call = None
    /\ result = None
    /\ tasks = [i \in Tasks |-> NewTask]
    /\ stats = None
    /\ added = <<>>

\* task i calls client.check(in)
TaskStart(i) ==
    /\ tasks[i].pc = "idle"
    /\ \E in \in TaskInputs :
         tasks' = [tasks EXCEPT ![i] = task_start(Unwrap(client), tasks[i], in)]
    /\ UNCHANGED <<builder, client, pc, input, uri, source, retries, wait, status, ret,
                   trace, answer, call, result, stats, added>>

\* the call as it would be if check_github took the provider client out of the
\* Client (Option::take) for the time of its query
TaskRun_taking(i) ==
    /\ TaskRunning(tasks[i])
    /\ tasks' = [tasks EXCEPT ![i] = task_run(Unwrap(client), tasks[i])]
    /\ client' = IF tasks[i].pc = "check_github"
                 THEN Some([Unwrap(client) EXCEPT !.github_client = None])
                 ELSE client
    /\ UNCHANGED <<builder, pc, input, uri, source, retries, wait, status, ret,
                   trace, answer, call, result, stats, added>>

\* task i runs its call up to the next .await, or to its return
TaskRun(i) ==
    /\ TaskRunning(tasks[i])
    /\ tasks' = [tasks EXCEPT ![i] = task_run(Unwrap(client), tasks[i])]
    /\ UNCHANGED <<builder, client, pc, input, uri, source, retries, wait, status, ret,
                   trace, answer, call, result, stats, added>>

\* the await task i is suspended at answers
TaskResume(i) ==
    /\ TaskSuspended(tasks[i])
    /\ \E ans \in TaskAnswers(tasks[i].pc) :
         tasks' = [tasks EXCEPT ![i] = task_resume(Unwrap(client), tasks[i], ans)]
    /\ UNCHANGED <<builder, client, pc, input, uri, source, retries, wait, status, ret,
                   trace, answer, call, result, stats, added>>

NextTasks ==
    \/ \E i \in Tasks : TaskStart(i)
    \/ \E i \in Tasks : TaskRun(i)
    \/ \E i \in Tasks : TaskResume(i)

SpecTasks == InitTasks /\ [][NextTasks]_vars

\* what a call returns when it runs alone on client c and its awaits answer log
RECURSIVE run_alone(_, _, _)
run_alone(c, t, log) ==
    IF t.pc = "done" THEN t.ret
    ELSE IF TaskSuspended(t)
    THEN run_alone(c, task_resume(c, t, Head(log)), Tail(log))
    ELSE run_alone(c, task_run(c, t), log)

\* C15: no check() changes the Client that build() made, and whatever the
\* interleaving of the calls, each returns what it would return alone on that
\* Client with the same answers to its probes.
C15_CallsDoNotInterfere ==
    /\ client = Some(build(builder))
    /\ \A i \in Tasks :
         tasks[i].pc = "done" =>
           tasks[i].ret = run_alone(build(builder),
                                    task_start(build(builder), NewTask, Unwrap(tasks[i].input)),
                                    tasks[i].log)

\* both calls, on a Client with a provider client, have gone through four probes,
\* three sleeps and the provider query, and have returned different results
C15_Witness ==
    /\ \A i \in Tasks : tasks[i].pc = "done" /\ Len(tasks[i].log) = 2 * RETRIES + 2
    /\ IsSome(Unwrap(client).github_client)
    /\ tasks["t1"].ret /= tasks["t2"].ret

----------------------------------------------------------------------------
(* The functions of the code, each applied on its own to arguments drawn   *)
(* from a bounded set: call holds the function's name and its arguments,    *)
(* result what it returned.                                                 *)

\* the status codes a response is classified from: the edges of each class
StatusCodes == {100, 199, 200, 204, 299, 300, 301, 399, 400, 404, 500, 503, 599}
\* the codes a caller lists as accepted
AcceptableCodes == {204, 301, 404, 503}
\* ClientBuilder::accepted: unset, or a set of codes
AcceptedSets == {None} \cup { Some(A) : A \in SUBSET AcceptableCodes }

Call(fn, arg) == [fn |-> fn, arg |-> arg]

\* the calls of Status::new
Status_new_Calls ==
    { Call("Status_new", [code |-> c, accepted |-> A]) :
        c \in StatusCodes, A \in AcceptedSets }

\* the options of the builder that the filter is built from
FilterFields == BuilderFields \ {"github_token", "accepted"}

\* the builders with at most n filter options set
RECURSIVE BuildersWith(_)
BuildersWith(n) ==
    IF n = 0
    THEN { DefaultBuilder }
    ELSE LET fewer == BuildersWith(n - 1) IN
         fewer \cup
         UNION { UNION { { SetField(b, f, v) : v \in OptionValues(f) } :
                           f \in { g \in FilterFields : b[g] = None } } :
                   b \in fewer }

FilterBuilders == BuildersWith(MaxFilterOptions)

\* the calls of Filter::is_excluded, on the filter of a built client
is_excluded_Calls ==
    { Call("is_excluded", [builder |-> b, uri |-> u]) : b \in FilterBuilders, u \in Uris }

\* the calls of ClientBuilder::build
build_Calls == { Call("build", [builder |-> b]) : b \in FilterBuilders }

\* the codes of the statuses that are displayed
DisplayCodes == {301, 404}
\* the pieces an error message is made of: text, and what a formatted code is made of
MsgTokens == { "x", " (", ")" } \cup { code_text(c) : c \in DisplayCodes }

\* the strings of at most n tokens
RECURSIVE Messages(_)
Messages(n) ==
    IF n = 0
    THEN { <<>> }
    ELSE LET shorter == Messages(n - 1) IN
         shorter \cup { Append(m, t) : m \in shorter, t \in MsgTokens }

\* the values of enum Status
StatusValues ==
    { Ok(c) : c \in DisplayCodes }
    \cup { Redirected(c) : c \in DisplayCodes }
    \cup { Excluded }
    \cup { Timeout(c) : c \in {None} \cup { Some(d) : d \in DisplayCodes } }
    \cup { Error(m, c) : m \in Messages(MaxMsgLen),
                         c \in {None} \cup { Some(d) : d \in DisplayCodes } }

\* the statuses that are serialized
Display_Calls == { Call("Display", st) : st \in StatusValues }

\* enum ErrorKind with the payload of each variant: a and b are what the variant
\* carries (texts, as token tuples), more is detail of a wrapped error that
\* neither its kind nor its text shows
EK(kind, a, b, more) == [kind |-> kind, a |-> a, b |-> b, more |-> more]

Paths == { <<"a.md">>, <<"b.md">> }
Texts == { <<"x">>, <<"y">> }

\* the values of ErrorKind
ErrorKinds ==
    \* IoError(Option<PathBuf>, io::Error): a the path, b the error's kind()
    { EK("IoError", p, k, m) : p \in {<<>>} \cup Paths,
                               k \in {<<"NotFound">>, <<"PermissionDenied">>},
                               m \in Texts }
    \* ReqwestError(e), HubcapsError(e): a is e.to_string()
    \cup { EK("ReqwestError", t, <<>>, <<>>) : t \in Texts }
    \cup { EK("HubcapsError", t, <<>>, <<>>) : t \in Texts }
    \* UrlParseError(s, (url error, mail error)): a is s, b the pair of errors
    \cup { EK("UrlParseError", t, e, <<>>) :
             t \in Texts, e \in {<<"RelativeUrlWithoutBase">>, <<"EmptyHost", "NoSignAt">>} }
    \cup { EK("InvalidFileUri", u, <<>>, <<>>) : u \in Paths }
    \cup { EK("InvalidPath", p, <<>>, <<>>) : p \in Paths }
    \cup { EK("UnreachableEmailAddress", u, <<>>, <<>>) : u \in Texts }
    \* InvalidHeader(InvalidHeaderValue): the wrapped value carries no data
    \cup { EK("InvalidHeader", <<>>, <<>>, <<>>) }
    \cup { EK("InvalidBase", t, e, <<>>) : t \in Paths, e \in Texts }
    \cup { EK("FileNotFound", p, <<>>, <<>>) : p \in Paths }
    \* InvalidGlobPattern(PatternError { pos, msg }): a is msg, b is pos
    \cup { EK("InvalidGlobPattern", t, n, <<>>) : t \in Texts, n \in {<<"0">>, <<"3">>} }
    \cup { EK("MissingGitHubToken", <<>>, <<>>, <<>>) }

\* impl PartialEq for ErrorKind: the arms of the match, then `_ => false`
ErrorKind_eq(x, y) ==
    IF x.kind /= y.kind THEN FALSE
    ELSE CASE x.kind = "IoError" -> x.a = y.a /\ x.b = y.b
           [] x.kind = "ReqwestError" -> x.a = y.a
           [] x.kind = "HubcapsError" -> x.a = y.a
           [] x.kind = "UrlParseError" -> x.a = y.a /\ x.b = y.b
           [] x.kind = "UnreachableEmailAddress" -> x.a = y.a
           [] x.kind = "InvalidGlobPattern" -> x.a = y.a /\ x.b = y.b
           [] x.kind = "InvalidHeader" -> TRUE
           [] x.kind = "MissingGitHubToken" -> TRUE
           [] OTHER -> FALSE

\* impl Hash for ErrorKind: what each arm feeds to the hasher
ErrorKind_hash(x) ==
    CASE x.kind = "IoError" -> <<x.a, x.b>>
      [] x.kind = "ReqwestError" -> <<x.a>>
      [] x.kind = "HubcapsError" -> <<x.a>>
      [] x.kind = "FileNotFound" -> <<x.a>>
      [] x.kind = "UrlParseError" -> <<x.a, <<"TypeId">>>>
      [] x.kind = "InvalidFileUri" -> <<x.a>>
      [] x.kind = "InvalidPath" -> <<x.a>>
      [] x.kind = "UnreachableEmailAddress" -> <<x.a>>
      [] x.kind = "InvalidHeader" -> <<<<"failed to parse header value">>>>
      [] x.kind = "InvalidGlobPattern" ->
           <<<<"Pattern syntax error near position ">> \o x.b \o <<": ">> \o x.a>>
      [] x.kind = "MissingGitHubToken" -> <<<<"discriminant">>>>
      [] x.kind = "InvalidBase" -> <<x.a, x.b>>

\* the values compared and hashed
ErrorKind_Calls == { Call("ErrorKind", x) : x \in ErrorKinds }

FnCalls ==
    Status_new_Calls \cup is_excluded_Calls \cup build_Calls \cup Display_Calls
    \cup ErrorKind_Calls

InitFn ==
    /\ builder = DefaultBuilder
    /\ client = None
    /\ pc = "builder"
    /\ input = None
    /\ uri = None
    /\ source = None
    /\ retries = 0
    /\ wait = 0
    /\ status = None
    /\ ret = None
    /\ trace = <<>>
    /\ answer = None
    /\ call \in FnCalls
    /\ result = None
    /\ tasks = <<>>
    /\ stats = None
    /\ added = <<>>

\* Status::new is applied
Apply_Status_new ==
    /\ call.fn = "Status_new"
    /\ result = None
    /\ result' = Some(Status_new(call.arg.code, call.arg.accepted))
    /\ UNCHANGED <<builder, client, pc, input, uri, source, retries, wait, status, ret,
                   trace, answer, call, tasks, stats, added>>

\* build(), then Filter::is_excluded on the built filter
Apply_is_excluded ==
    /\ call.fn = "is_excluded"
    /\ result = None
    /\ result' = Some(is_excluded(build(call.arg.builder).filter, call.arg.uri))
    /\ UNCHANGED <<builder, client, pc, input, uri, source, retries, wait, status, ret,
                   trace, answer, call, tasks, stats, added>>

\* ClientBuilder::build is applied
Apply_build ==
    /\ call.fn = "build"
    /\ result = None
    /\ result' = Some(build(call.arg.builder))
    /\ UNCHANGED <<builder, client, pc, input, uri, source, retries, wait, status, ret,
                   trace, answer, call, tasks, stats, added>>

\* a Status is serialized: serializer.collect_str(self)
Apply_Display ==
    /\ call.fn = "Display"
    /\ result = None
    /\ result' = Some(Display(call.arg))
    /\ UNCHANGED <<builder, client, pc, input, uri, source, retries, wait, status, ret,
                   trace, answer, call, tasks, stats, added>>

\* an ErrorKind is compared with itself and hashed
Apply_ErrorKind ==
    /\ call.fn = "ErrorKind"
    /\ result = None
    /\ result' = Some([eq |-> ErrorKind_eq(call.arg, call.arg), hash |-> ErrorKind_hash(call.arg)])
    /\ UNCHANGED <<builder, client, pc, input, uri, source, retries, wait, status, ret,
                   trace, answer, call, tasks, stats, added>>

NextFn ==
    \/ Apply_Status_new
    \/ Apply_is_excluded
    \/ Apply_build
    \/ Apply_Display
    \/ Apply_ErrorKind

SpecFn == InitFn /\ [][NextFn]_vars

\* the function fn has been applied
Applied(fn) == call.fn = fn /\ IsSome(result)

----------------------------------------------------------------------------
\* C11: Status::new(c, A) is Ok(c) when A is set and holds c, whatever the class
\* of c; otherwise Ok(c) when c is 2xx; otherwise Redirected(c) when c is 3xx;
\* otherwise Error("", Some(c)).  The four cases are tried in this order.
C11_Classifier ==
    Applied("Status_new") =>
        LET c == call.arg.code
            A == call.arg.accepted
            r == Unwrap(result)
            isAccepted == A /= None /\ c \in Unwrap(A)
            is2xx == c \in 200..299
            is3xx == c \in 300..399
        IN  /\ isAccepted => r = Ok(c)
            /\ ~isAccepted /\ is2xx => r = Ok(c)
            /\ ~isAccepted /\ ~is2xx /\ is3xx => r = Redirected(c)
            /\ ~isAccepted /\ ~is2xx /\ ~is3xx => r = Error(<<>>, Some(c))

\* an accepted 3xx code has been classified as Ok
C11_Witness ==
    /\ Applied("Status_new")
    /\ call.arg.code = 301
    /\ call.arg.accepted /= None /\ 301 \in Unwrap(call.arg.accepted)
    /\ Unwrap(result) = Ok(301)

----------------------------------------------------------------------------
\* b.f was set to a pattern set / to a scheme
Configured(b, f) == b[f] /= None /\ Unwrap(b[f]) /= None
ConfiguredValue(b, f) == Unwrap(Unwrap(b[f]))

\* C16: is_excluded(uri) is true exactly when one of the five rules holds: the
\* configured scheme differs, a mail URI with exclude_mail, an excludes pattern
\* matches, a literal-IP host of a class whose toggle is on, includes configured
\* and none matching.  A URI matching both an excludes and an includes pattern is
\* excluded; a client built with no filter option excludes nothing.
C16_FilterRules ==
    Applied("is_excluded") =>
        LET b == call.arg.builder
            u == call.arg.uri
            f == build(b).filter
            r == Unwrap(result)
            rule1 == Configured(b, "scheme")
                       /\ to_lowercase(ConfiguredValue(b, "scheme")) /= to_lowercase(scheme(u))
            rule2 == scheme(u) = "mailto" /\ b.exclude_mail = Some(TRUE)
            rule3 == Configured(b, "excludes")
                       /\ \E i \in 1..Len(u.url) : u.url[i] \in ConfiguredValue(b, "excludes")
            rule4 == \/ host_ip_class(u) = "private" /\ f.excludes.private_ips
                     \/ host_ip_class(u) = "link_local" /\ f.excludes.link_local_ips
                     \/ host_ip_class(u) = "loopback" /\ f.excludes.loopback_ips
            rule5 == Configured(b, "includes")
                       /\ \A i \in 1..Len(u.url) : u.url[i] \notin ConfiguredValue(b, "includes")
        IN  /\ r <=> (rule1 \/ rule2 \/ rule3 \/ rule4 \/ rule5)
            /\ rule3 /\ Configured(b, "includes") /\ ~rule5 => r
            /\ NumSet(b) = 0 => ~r

\* a URI that matches both an excludes and an includes pattern was found excluded
C16_Witness ==
    /\ Applied("is_excluded")
    /\ Configured(call.arg.builder, "excludes")
    /\ Configured(call.arg.builder, "includes")
    /\ regex_is_match(ConfiguredValue(call.arg.builder, "excludes"), call.arg.uri)
    /\ regex_is_match(ConfiguredValue(call.arg.builder, "includes"), call.arg.uri)
    /\ Unwrap(result) = TRUE

----------------------------------------------------------------------------
\* C17: in the built filter each of the three IP-class excludes is on exactly
\* when exclude_all_private is true or the class's own toggle is true;
\* exclude_all_private does not turn on exclude_mail; an unset option is false.
C17_PrivateToggles ==
    Applied("build") =>
        LET b == call.arg.builder
            e == Unwrap(result).filter.excludes
            all == b.exclude_all_private = Some(TRUE)
        IN  /\ e.private_ips <=> (all \/ b.exclude_private_ips = Some(TRUE))
            /\ e.link_local_ips <=> (all \/ b.exclude_link_local_ips = Some(TRUE))
            /\ e.loopback_ips <=> (all \/ b.exclude_loopback_ips = Some(TRUE))
            /\ e.mail <=> b.exclude_mail = Some(TRUE)

\* a builder with exclude_all_private(true) and exclude_loopback_ips(false) was
\* built: the three IP classes are excluded, mail is not
C17_Witness ==
    /\ Applied("build")
    /\ call.arg.builder.exclude_all_private = Some(TRUE)
    /\ call.arg.builder.exclude_loopback_ips = Some(FALSE)
    /\ Unwrap(result).filter.excludes.loopback_ips
    /\ Unwrap(result).filter.excludes.private_ips
    /\ Unwrap(result).filter.excludes.link_local_ips
    /\ ~Unwrap(result).filter.excludes.mail

----------------------------------------------------------------------------
\* C19: the string a Status serializes to tells the values of one variant apart:
\* no other Status of the same variant has the same string.
C19_SerializeInjective ==
    Applied("Display") =>
        \A other \in StatusValues :
            (other.tag = call.arg.tag /\ Display(other) = Unwrap(result))
                => other = call.arg

----------------------------------------------------------------------------
(* ResponseStats (stats.rs).  Its Status is the enum of the version the    *)
(* file was written for: Ok(_), Failed(_), Timeout, Redirected, Excluded,  *)
(* Error(_); add() matches on the variant alone.                            *)

\* the variants of the Status that add() matches on
StatsStatuses == {"Ok", "Failed", "Timeout", "Redirected", "Excluded", "Error"}
\* the uris of the responses added
StatsUris == { MkUri(<<"http", "example.com">>), MkUri(<<"mailto", "user@example.com">>) }
\* the responses added: add() reads response.uri and response.status
StatsResponses == { [uri |-> u, status |-> st] : u \in StatsUris, st \in StatsStatuses }

\* ResponseStats::new
ResponseStats_new ==
    [ total |-> 0, successful |-> 0, failed |-> {}, timeout |-> {}, redirected |-> {},
      excluded |-> {}, error |-> {} ]

\* ResponseStats::add
ResponseStats_add(s, response) ==
    LET s1 == [s EXCEPT !.total = s.total + 1]
        u == response.uri
    IN  CASE response.status = "Ok" -> [s1 EXCEPT !.successful = s1.successful + 1]
          [] response.status = "Failed" -> [s1 EXCEPT !.failed = s1.failed \cup {u}]
          [] response.status = "Timeout" -> [s1 EXCEPT !.timeout = s1.timeout \cup {u}]
          [] response.status = "Redirected" -> [s1 EXCEPT !.redirected = s1.redirected \cup {u}]
          [] response.status = "Excluded" -> [s1 EXCEPT !.excluded = s1.excluded \cup {u}]
          [] response.status = "Error" -> [s1 EXCEPT !.error = s1.error \cup {u}]

\* ResponseStats::is_success
ResponseStats_is_success(s) == s.total = s.successful + Cardinality(s.excluded)

InitStats ==
    /\ builder = DefaultBuilder
    /\ client = None
    /\ pc = "builder"
    /\ input = None
    /\ uri = None
    /\ source = None
    /\ retries = 0
    /\ wait = 0
    /\ status = None
    /\ ret = None
    /\ trace = <<>>
    /\ answer = None
    /\ call = None
    /\ result = None
    /\ tasks = <<>>
    /\ stats = Some(ResponseStats_new)
    /\ added = <<>>

\* stats.add(response)
StatsAdd ==
    /\ Len(added) < MaxAdded
    /\ \E response \in StatsResponses :
         /\ stats' = Some(ResponseStats_add(Unwrap(stats), response))
         /\ added' = Append(added, response)
    /\ UNCHANGED <<builder, client, pc, input, uri, source, retries, wait, status, ret,
                   trace, answer, call, result, tasks>>

NextStats ==
    \/ StatsAdd

SpecStats == InitStats /\ [][NextStats]_vars

\* C24: after any sequence of add() calls, is_success() is true exactly when every
\* response added had status Ok or Excluded, also when a URI was added twice.
C24_StatsSuccess ==
    ResponseStats_is_success(Unwrap(stats))
        <=> \A i \in 1..Len(added) : added[i].status \in {"Ok", "Excluded"}

----------------------------------------------------------------------------
\* C25: == on ErrorKind is an equivalence that agrees with Hash: every value
\* equals itself, == is symmetric and transitive, and values that are == feed
\* the same data to the hasher.
C25_EqIsEquivalence ==
    Applied("ErrorKind") =>
        LET x == call.arg IN
        /\ Unwrap(result).eq
        /\ \A y \in ErrorKinds :
             /\ ErrorKind_eq(x, y) <=> ErrorKind_eq(y, x)
             /\ ErrorKind_eq(x, y) => ErrorKind_hash(y) = Unwrap(result).hash
             /\ \A z \in ErrorKinds :
                  (ErrorKind_eq(x, y) /\ ErrorKind_eq(y, z)) => ErrorKind_eq(x, z)

====
